---------------------------- MODULE Spec2Model ----------------------------
(***************************************************************************)
(* GitLab Registry Explorer (src/src/extension.ts): the tree data provider *)
(* GitLabRegistryProvider, its caches, filters and asynchronous            *)
(* resolutions, as a state machine.                                        *)
(*                                                                         *)
(* Strings are sequences of one-character strings, so that toLowerCase,    *)
(* trim, includes, split and the two string orderings are computed and not *)
(* assumed.  A few fixed texts that the code never looks into are kept as  *)
(* one element ("Repository: ", "registry.gitlab.com/").                   *)
(***************************************************************************)
EXTENDS Integers, Sequences, FiniteSets, TLC

(***************************************************************************)
(* Bounds of the model.                                                    *)
(***************************************************************************)
\* getChildren calls the host may have in flight at once
MaxCalls == 2
\* the largest value of the maxTagsToDisplay setting that is tried
MaxCutoff == 2

(***************************************************************************)
(* JavaScript values.                                                      *)
(***************************************************************************)
\* an absent optional number (created_at, total_size); ids use NoId
Undefined == -1
\* an absent optional id of a tree item; falsy like undefined
NoId == 0
\* what a template literal prints for an undefined value
UndefinedStr == <<"undefined">>
\* the result of getTime() on an invalid Date, and of arithmetic on it: a value
\* that no difference of two timestamps takes
NaN == -1000000

(***************************************************************************)
(* Strings.                                                                *)
(***************************************************************************)
UpperCase == <<"A","B","C","D","E","F","G","H","I","J","K","L","M",
               "N","O","P","Q","R","S","T","U","V","W","X","Y","Z">>

LowerCase == <<"a","b","c","d","e","f","g","h","i","j","k","l","m",
               "n","o","p","q","r","s","t","u","v","w","x","y","z">>

Digits == <<"0","1","2","3","4","5","6","7","8","9">>

IndexOf(seq, c) == IF \E i \in 1..Len(seq) : seq[i] = c
                   THEN CHOOSE i \in 1..Len(seq) : seq[i] = c
                   ELSE 0

IsUpper(c) == IndexOf(UpperCase, c) # 0

LowerChar(c) == IF IsUpper(c) THEN LowerCase[IndexOf(UpperCase, c)] ELSE c

\* String.prototype.toLowerCase
ToLowerCase(s) == [i \in 1..Len(s) |-> LowerChar(s[i])]

SetMin(S) == CHOOSE x \in S : \A y \in S : x <= y

SetMax(S) == CHOOSE x \in S : \A y \in S : x >= y

\* String.prototype.trim
Trim(s) == LET keep == {i \in 1..Len(s) : s[i] # " "}
           IN  IF keep = {} THEN <<>> ELSE SubSeq(s, SetMin(keep), SetMax(keep))

\* String.prototype.includes
Includes(s, sub) == \E i \in 0..(Len(s) - Len(sub)) : SubSeq(s, i + 1, i + Len(sub)) = sub

\* String.prototype.startsWith
StartsWith(s, pre) == Len(pre) <= Len(s) /\ SubSeq(s, 1, Len(pre)) = pre

\* s.split('/')[0]
FirstSegment(s) == LET slashes == {i \in 1..Len(s) : s[i] = "/"}
                   IN  IF slashes = {} THEN s ELSE SubSeq(s, 1, SetMin(slashes) - 1)

\* s.split('/').pop()
LastSegment(s) == LET slashes == {i \in 1..Len(s) : s[i] = "/"}
                  IN  IF slashes = {} THEN s ELSE SubSeq(s, SetMax(slashes) + 1, Len(s))

\* s.substring(0, s.lastIndexOf('/')): substring takes a negative end as 0
BeforeLastSlash(s) == LET slashes == {i \in 1..Len(s) : s[i] = "/"}
                      IN  IF slashes = {} THEN <<>> ELSE SubSeq(s, 1, SetMax(slashes) - 1)

\* s.slice(n)
Slice(s, n) == SubSeq(s, n + 1, Len(s))

(***************************************************************************)
(* The two orderings of strings the code sorts with.                       *)
(***************************************************************************)
\* the characters in UTF-16 code unit order (what Array.prototype.sort uses
\* without a comparator)
CodeUnitOrder == <<" ", "(", ")", "-", ".", "/">> \o Digits \o <<":">> \o UpperCase
                 \o <<"_">> \o LowerCase

CodeUnit(c) == IndexOf(CodeUnitOrder, c)

\* the primary weights of the root collation (what localeCompare uses):
\* punctuation, then digits, then letters without regard to case
PrimaryOrder == <<" ", "_", "-", ":", ".", "(", ")", "/">> \o Digits \o LowerCase

Primary(c) == IndexOf(PrimaryOrder, LowerChar(c))

\* the tertiary weight: a lower case letter sorts before its upper case form
Tertiary(c) == IF IsUpper(c) THEN 1 ELSE 0

\* lexicographic comparison of two strings under the weight W: -1, 0 or 1
LexCompare(a, b, W(_)) ==
    LET n    == IF Len(a) < Len(b) THEN Len(a) ELSE Len(b)
        diff == {i \in 1..n : W(a[i]) # W(b[i])}
    IN  IF diff # {}
        THEN IF W(a[SetMin(diff)]) < W(b[SetMin(diff)]) THEN -1 ELSE 1
        ELSE IF Len(a) < Len(b) THEN -1 ELSE IF Len(a) > Len(b) THEN 1 ELSE 0

\* the comparison of Array.prototype.sort() called without a comparator
DefaultCompare(a, b) == LexCompare(a, b, CodeUnit)

\* String.prototype.localeCompare
LocaleCompare(a, b) == LET p == LexCompare(a, b, Primary)
                       IN  IF p # 0 THEN p ELSE LexCompare(a, b, Tertiary)

(***************************************************************************)
(* Array.prototype.sort as V8 runs it on an array of fewer than 64         *)
(* elements: the leading run is found (and reversed when it strictly       *)
(* descends), then every later element is placed by binary insertion.  A   *)
(* comparator result of NaN counts as 0.                                   *)
(***************************************************************************)
Reverse(s) == [i \in 1..Len(s) |-> s[Len(s) + 1 - i]]

\* the comparator of the label sorts
ByLabel(a, b) == LocaleCompare(a.label, b.label)

\* new Date(created_at || '').getTime()
GetTime(created_at) == IF created_at = Undefined THEN NaN ELSE created_at

\* the comparator of the tag sort: the difference of the two times
TagCompare(a, b) ==
    LET tb == GetTime(b.created_at)
        ta == GetTime(a.created_at)
    IN  IF tb = NaN \/ ta = NaN THEN NaN ELSE tb - ta

\* the comparator's result as the sort reads it
Order(v) == IF v = NaN THEN 0 ELSE v

\* CountAndMakeRun: the length of the leading run and whether it descends
RunOf(s, Cmp(_, _)) ==
    LET desc == Order(Cmp(s[2], s[1])) < 0
        ext[k \in 2..Len(s)] ==
            IF k = Len(s) THEN k
            ELSE LET o == Order(Cmp(s[k + 1], s[k]))
                 IN  IF (desc /\ o >= 0) \/ (~desc /\ o < 0) THEN k ELSE ext[k + 1]
    IN  [length |-> ext[2], descending |-> desc]

\* the place binary insertion finds for pivot in the sorted prefix work
InsertionPoint(work, pivot, Cmp(_, _)) ==
    LET pos[left \in 0..Len(work), right \in 0..Len(work)] ==
            IF left >= right THEN left
            ELSE LET mid == left + ((right - left) \div 2)
                 IN  IF Order(Cmp(pivot, work[mid + 1])) < 0
                     THEN pos[left, mid]
                     ELSE pos[mid + 1, right]
    IN  pos[0, Len(work)]

InsertAt(work, at, x) == SubSeq(work, 1, at) \o <<x>> \o SubSeq(work, at + 1, Len(work))

ArraySort(s, Cmp(_, _)) ==
    IF Len(s) < 2 THEN s
    ELSE LET run   == RunOf(s, Cmp)
             first == IF run.descending
                      THEN Reverse(SubSeq(s, 1, run.length))
                      ELSE SubSeq(s, 1, run.length)
             place[k \in run.length..Len(s)] ==
                 IF k = run.length THEN first
                 ELSE InsertAt(place[k - 1],
                               InsertionPoint(place[k - 1], s[k], Cmp), s[k])
         IN  place[Len(s)]

(***************************************************************************)
(* formatBytes.                                                            *)
(***************************************************************************)
units == <<"B", "KB", "MB", "GB", "TB">>

\* A byte count is a JavaScript number that may exceed 2^31: it is kept as its
\* digits to the base 1024, the most significant first.
RECURSIVE Limbs(_)
Limbs(n) == IF n < 1024 THEN <<n>> ELSE Append(Limbs(n \div 1024), n % 1024)

\* the number a short digit sequence stands for
ValueOf(limbs) ==
    LET v[i \in 0..Len(limbs)] == IF i = 0 THEN 0 ELSE v[i - 1] * 1024 + limbs[i]
    IN  v[Len(limbs)]

\* size after k divisions by 1024: its whole part and its fraction
SizeAfter(limbs, k) ==
    [whole |-> SubSeq(limbs, 1, Len(limbs) - k),
     frac  |-> SubSeq(limbs, Len(limbs) - k + 1, Len(limbs))]

\* size >= 1024
AtLeast1024(size) == \E i \in 1..(Len(size.whole) - 1) : size.whole[i] > 0

\* a loop that stops at GB
UnitIndex_StopsAtGB(limbs) ==
    LET step[k \in 0..(Len(units) - 1)] ==
            IF AtLeast1024(SizeAfter(limbs, k)) /\ k < Len(units) - 2
            THEN step[k + 1] ELSE k
    IN  step[0]

\* the unit index the loop stops at
UnitIndex(limbs) ==
    LET step[k \in 0..(Len(units) - 1)] ==
            IF AtLeast1024(SizeAfter(limbs, k)) /\ k < Len(units) - 1
            THEN step[k + 1] ELSE k
    IN  step[0]

\* size.toFixed(2): the nearest hundredth, a tie going up
ToFixed2(size) ==
    LET n == Len(size.frac)
        \* the whole part of 200 times the fraction, digit by digit from the right
        carry[i \in 1..(n + 1)] ==
            IF i = n + 1 THEN 0 ELSE (200 * size.frac[i] + carry[i + 1]) \div 1024
        h == (carry[1] + 1) \div 2
        whole == ValueOf(size.whole) + (IF h = 100 THEN 1 ELSE 0)
    IN  <<ToString(whole), ".", ToString((h % 100) \div 10), ToString(h % 10)>>

\* formatBytes from line 30 on, for a number
formatNumber(limbs) ==
    IF \A i \in 1..Len(limbs) : limbs[i] = 0 THEN <<"Unknown size">>
    ELSE LET unitIndex == UnitIndex(limbs)
         IN  ToFixed2(SizeAfter(limbs, unitIndex)) \o <<" ", units[unitIndex + 1]>>

formatBytes(bytes) ==
    IF bytes = Undefined THEN <<"Unknown size">> ELSE formatNumber(Limbs(bytes))

(***************************************************************************)
(* The remote registry: what the GitLab API would answer when a request    *)
(* succeeds.  Every request may also answer with a non-success status or   *)
(* fail in transport (Outcomes).                                           *)
(***************************************************************************)
Str_g      == <<"g">>
Str_g_sub  == <<"g", "/", "s", "u", "b">>
Str_Hub    == <<"H", "u", "b">>

\* GitLabProject
Project(id, name, ns, enabled) ==
    [id |-> id, name |-> name, path_with_namespace |-> ns \o <<"/">> \o name,
     namespace |-> [full_path |-> ns], container_registry_enabled |-> enabled]

pApp == Project(1, <<"a", "p", "p">>, Str_g_sub, TRUE)
pDoc == Project(2, <<"d", "o", "c">>, Str_g, FALSE)
pApi == Project(3, <<"A", "p", "i">>, Str_g, TRUE)
pWeb == Project(4, <<"w", "e", "b">>, Str_Hub, TRUE)
pLib == Project(5, <<"l", "i", "b">>, Str_g, TRUE)

\* GET /projects?membership=true&per_page=100&page=N, page by page
RemoteProjectPages == << <<pApp, pDoc, pLib>>, <<pApi, pWeb>> >>

RemoteProjects == {pApp, pDoc, pApi, pWeb, pLib}

ProjectIds == {p.id : p \in RemoteProjects}

\* GitLabRegistryRepo
Repo(id, path) == [id |-> id, name |-> LastSegment(path), path |-> path]

\* GET /projects/{id}/registry/repositories: doc has a repository left from
\* the time its registry was enabled, lib has its registry enabled and empty
RemoteRepos(projectId) ==
    CASE projectId = 1 -> <<Repo(1, pApp.path_with_namespace),
                            Repo(2, pApp.path_with_namespace \o <<"/", "c">>)>>
      [] projectId = 2 -> <<Repo(5, pDoc.path_with_namespace)>>
      [] projectId = 3 -> <<Repo(3, pApi.path_with_namespace)>>
      [] projectId = 4 -> <<Repo(4, pWeb.path_with_namespace)>>
      [] OTHER         -> <<>>

RepoIds == {1, 2, 3, 4, 5}

\* the project a repository id belongs to
OwnerOf(repoId) == CHOOSE id \in ProjectIds :
                      \E i \in 1..Len(RemoteRepos(id)) : RemoteRepos(id)[i].id = repoId

\* GitLabTag
Tag(name, created_at, total_size) ==
    [name |-> name, created_at |-> created_at, total_size |-> total_size]

Tag_v1 == <<"v", "1">>
Tag_V2 == <<"V", "2">>
Tag_rc == <<"r", "c">>

\* GET .../registry/repositories/{repoId}/tags?per_page=100&page=N, page by page
RemoteTagPages(repoId) ==
    CASE repoId = 1 -> << <<Tag_v1, Tag_rc>>, <<Tag_V2>> >>
      [] repoId = 2 -> << <<Tag_v1, Tag_rc>> >>
      [] OTHER      -> << >>

\* GET .../registry/repositories/{repoId}/tags/{name}
RemoteTagDetail(repoId, name) ==
    CASE repoId = 1 /\ name = Tag_v1 -> Tag(name, 2, 1536)
      [] repoId = 1 /\ name = Tag_rc -> Tag(name, 3, 5)
      [] repoId = 1 /\ name = Tag_V2 -> Tag(name, 1, 0)
      [] OTHER                       -> Tag(name, 2, 2048)

\* a request answers 2xx, answers another status, or fails in transport
Outcomes == {"ok", "notok", "reject"}

\* the page with index page (from 1) of a paged listing; empty past the end
PageOf(pages, page) == IF page \in 1..Len(pages) THEN pages[page] ELSE <<>>

(***************************************************************************)
(* Tree items.                                                             *)
(***************************************************************************)
\* new TreeItemWithContext(label, state, context, fullPath, projectId, repoId,
\* tagName, imageUrl)
TreeItemWithContext(label, context, fullPath, projectId, repoId, tagName, imageUrl) ==
    [label |-> label, context |-> context, fullPath |-> fullPath,
     projectId |-> projectId, repoId |-> repoId, tagName |-> tagName,
     imageUrl |-> imageUrl]

\* a tree item with only label and context given
Leaf(label, context) ==
    TreeItemWithContext(label, context, UndefinedStr, NoId, NoId, UndefinedStr, UndefinedStr)

\* getChildren() without an element: the root
RootElement == Leaf(<<>>, "root")

FolderItem(label, path) ==
    TreeItemWithContext(label, "folder", path, NoId, NoId, UndefinedStr, UndefinedStr)

ProjectItem(label, p) ==
    TreeItemWithContext(label, "project", p.path_with_namespace, p.id, NoId,
                        UndefinedStr, UndefinedStr)

RepoItem(element, repo) ==
    TreeItemWithContext(<<"Repository: ">> \o repo.path, "repo", element.fullPath,
                        element.projectId, repo.id, UndefinedStr, UndefinedStr)

\* Array.prototype.find over the project list: the project, or undefined
NoProject == [id |-> NoId, name |-> UndefinedStr, path_with_namespace |-> UndefinedStr,
              namespace |-> [full_path |-> UndefinedStr],
              container_registry_enabled |-> FALSE]

FindProject(projects, projectId) ==
    LET hits == {i \in 1..Len(projects) : projects[i].id = projectId}
    IN  IF hits = {} THEN NoProject ELSE projects[SetMin(hits)]

\* the elements of a sequence as a set
Range(s) == {s[i] : i \in 1..Len(s)}

\* Array.from(new Set(...)): the distinct values in the order of first insertion
Distinct(s) ==
    LET f[k \in 0..Len(s)] ==
            IF k = 0 THEN <<>>
            ELSE IF s[k] \in Range(f[k - 1]) THEN f[k - 1] ELSE Append(f[k - 1], s[k])
    IN  f[Len(s)]

(***************************************************************************)
(* The state: the fields of GitLabRegistryProvider, what the host keeps    *)
(* for it, and the getChildren calls in flight.                            *)
(***************************************************************************)
VARIABLES
    cachedProjects,      \* GitLabProject[]
    cachedTags,          \* Map<repoId, GitLabTag[]>
    showAllTagsForRepo,  \* Set<repoId>
    searchQuery,         \* string
    filterTagsQueries,   \* Map<repoId, string>
    globalState,         \* context.globalState 'cachedProjects'
    gitlabToken,         \* whether context.secrets holds 'gitlabToken'
    maxTagsToDisplay,    \* the gitlabRegistryExplorer.maxTagsToDisplay setting
    calls,               \* the getChildren calls in flight, each at its await
    emitted,             \* what the last step asked of the host
    returned,            \* the getChildren result the last step handed to the host
    scenario             \* the user's place in a scripted session (SpecSearch)

vars == <<cachedProjects, cachedTags, showAllTagsForRepo, searchQuery,
          filterTagsQueries, globalState, gitlabToken, maxTagsToDisplay,
          calls, emitted, returned, scenario>>

Calls == 1..MaxCalls

(***************************************************************************)
(* Map<number, T> as a function on its keys.                               *)
(***************************************************************************)
EmptyMap == [k \in {} |-> <<>>]

MapHas(m, k) == k \in DOMAIN m

MapSet(m, k, v) == [x \in (DOMAIN m) \cup {k} |-> IF x = k THEN v ELSE m[x]]

MapDelete(m, k) == [x \in (DOMAIN m) \ {k} |-> m[x]]

(***************************************************************************)
(* The synchronous parts of getChildren.                                   *)
(***************************************************************************)
\* a getFilterTagsQuery that forgets the stored query
getFilterTagsQuery_Forgets(repoId) == <<>>

\* getFilterTagsQuery: filterTagsQueries.get(repoId) || ''
getFilterTagsQuery(repoId) ==
    IF MapHas(filterTagsQueries, repoId) THEN filterTagsQueries[repoId] ELSE <<>>

\* getCachedTags: cachedTags.get(repoId) || []
getCachedTags(repoId) ==
    IF MapHas(cachedTags, repoId) THEN cachedTags[repoId] ELSE <<>>

\* a match that forgets to lower-case the path
MatchesSearch_CaseSensitive(p) == Includes(p.path_with_namespace, searchQuery)

MatchesSearch(p) == Includes(ToLowerCase(p.path_with_namespace), searchQuery)

getFilteredProjects ==
    IF searchQuery = <<>> THEN cachedProjects
    ELSE SelectSeq(cachedProjects, MatchesSearch)

\* the item of a project in search mode: the label carries the namespace
SearchItem(p) ==
    ProjectItem(p.name \o <<" ", "(">> \o BeforeLastSlash(p.path_with_namespace)
                \o <<")">>, p)

\* the whole namespace path taken for its root
RootsOf_FullPath(projects) == [i \in 1..Len(projects) |-> projects[i].namespace.full_path]

\* the root of namespace.full_path of every project, in list order
RootsOf(projects) == [i \in 1..Len(projects) |-> FirstSegment(projects[i].namespace.full_path)]

\* getChildren(undefined) from line 190 on
RootChildren ==
    LET filteredProjects == getFilteredProjects
    IN  IF Len(filteredProjects) = 0
        THEN <<Leaf(<<"No projects found">>, "tag")>>
        ELSE IF searchQuery # <<>>
        THEN ArraySort([i \in 1..Len(filteredProjects) |-> SearchItem(filteredProjects[i])],
                       ByLabel)
        ELSE LET rootFolders == ArraySort(Distinct(RootsOf(filteredProjects)), DefaultCompare)
             IN  [i \in 1..Len(rootFolders) |-> FolderItem(rootFolders[i], rootFolders[i])]

\* the subfolder path a project adds below the folder fullPath
SubfolderPath(fullPath, p) ==
    fullPath \o <<"/">> \o FirstSegment(Slice(p.namespace.full_path, Len(fullPath) + 1))

\* getChildren(folder)
FolderChildren(element) ==
    IF element.fullPath = UndefinedStr THEN <<>>
    ELSE LET InFolder(p)  == p.namespace.full_path = element.fullPath
             Below(p)     == StartsWith(p.namespace.full_path, element.fullPath \o <<"/">>)
             direct       == SelectSeq(cachedProjects, InFolder)
             projectItems == [i \in 1..Len(direct) |-> ProjectItem(direct[i].name, direct[i])]
             below        == SelectSeq(cachedProjects, Below)
             subfolderPaths ==
                 Distinct([i \in 1..Len(below) |-> SubfolderPath(element.fullPath, below[i])])
             folderItems  ==
                 [i \in 1..Len(subfolderPaths) |->
                     FolderItem(LastSegment(subfolderPaths[i]), subfolderPaths[i])]
         IN  ArraySort(projectItems \o folderItems, ByLabel)

\* getChildren(project), once the repository listing has answered
ProjectChildren(element, repos) == [i \in 1..Len(repos) |-> RepoItem(element, repos[i])]

\* new Date(created_at).toLocaleString()
toLocaleString(created_at) == <<"date ", ToString(created_at)>>

\* the label of a tag item (its dash written in ASCII)
TagLabel(tag) ==
    tag.name \o <<"  -  ">>
    \o (IF tag.created_at # Undefined THEN toLocaleString(tag.created_at)
        ELSE <<"unknown date">>)
    \o <<" (">> \o formatBytes(tag.total_size) \o <<")">>

TagItem(element, project, tag) ==
    TreeItemWithContext(TagLabel(tag), "tag", element.fullPath, element.projectId,
                        element.repoId, tag.name,
                        <<"registry.gitlab.com/">> \o project.path_with_namespace
                        \o <<":">> \o tag.name)

FilterItem(element, filterTagsQuery) ==
    TreeItemWithContext(IF filterTagsQuery # <<>> THEN <<"Filter: ">> \o filterTagsQuery
                        ELSE <<"Filter tags...">>,
                        "filter", element.fullPath, element.projectId, element.repoId,
                        UndefinedStr, UndefinedStr)

ShowAllItem(element, remainingTags) ==
    TreeItemWithContext(<<"Show All Tags... (", ToString(remainingTags), " more)">>,
                        "showAllTags", element.fullPath, element.projectId,
                        element.repoId, UndefinedStr, UndefinedStr)

\* a slice that cuts one element too late
SliceTo_OneMore(s, n) == SubSeq(s, 1, IF n + 1 < Len(s) THEN n + 1 ELSE Len(s))

\* filteredTags.slice(0, maxTagsToDisplay)
SliceTo(s, n) == SubSeq(s, 1, IF n < Len(s) THEN n ELSE Len(s))

\* getChildren(repo) from line 290 on: project is what the lookup of line 280
\* found, tags the cached or just fetched list
RepoChildren(element, project, tags) ==
    LET filterTagsQuery == getFilterTagsQuery(element.repoId)
        Matches(tag)    == Includes(ToLowerCase(tag.name), filterTagsQuery)
        filteredTags    == IF filterTagsQuery # <<>> THEN SelectSeq(tags, Matches) ELSE tags
        filterItem      == FilterItem(element, filterTagsQuery)
    IN  IF Len(filteredTags) = 0
        THEN <<filterItem, Leaf(<<"No tags match the filter">>, "tag")>>
        ELSE LET showAll    == element.repoId \in showAllTagsForRepo
                 tagsToShow == IF showAll THEN filteredTags
                               ELSE SliceTo(filteredTags, maxTagsToDisplay)
                 tagItems   == [i \in 1..Len(tagsToShow) |->
                                   TagItem(element, project, tagsToShow[i])]
                 remainingTags == Len(filteredTags) - Len(tagsToShow)
                 showAllItem   == IF remainingTags > 0
                                  THEN <<ShowAllItem(element, remainingTags)>>
                                  ELSE <<>>
             IN  <<filterItem>> \o tagItems \o showAllItem

(***************************************************************************)
(* The mutators of the provider.  Each runs to completion.  emitted is     *)
(* what the step asked of the host: "fire" for _onDidChangeTreeData.fire,  *)
(* "collapseAll" for the collapse command, "globalState.update" for the    *)
(* store of the project list, "showErrorMessage", and "rejected" for a     *)
(* getChildren promise that rejects.                                       *)
(***************************************************************************)
\* a refresh that asks the host to collapse the tree as clearFilters does
refresh_Collapses ==
    /\ cachedProjects' = <<>>
    /\ cachedTags' = EmptyMap
    /\ showAllTagsForRepo' = {}
    /\ filterTagsQueries' = EmptyMap
    /\ globalState' = <<>>
    /\ emitted' = {"globalState.update", "collapseAll", "fire"}
    /\ returned' = <<>>
    /\ UNCHANGED <<searchQuery, gitlabToken, maxTagsToDisplay, calls>>

refresh ==
    /\ cachedProjects' = <<>>
    /\ cachedTags' = EmptyMap
    /\ showAllTagsForRepo' = {}
    /\ filterTagsQueries' = EmptyMap
    /\ globalState' = <<>>                 \* saveCachedProjects up to its await
    /\ emitted' = {"globalState.update", "fire"}
    /\ returned' = <<>>
    /\ UNCHANGED <<searchQuery, gitlabToken, maxTagsToDisplay, calls>>

\* a setSearchQuery that also narrows the cached list to the matches
setSearchQuery_NarrowsCache(query) ==
    /\ searchQuery' = Trim(ToLowerCase(query))
    /\ cachedProjects' =
           (LET Hit(p) == Includes(ToLowerCase(p.path_with_namespace), searchQuery')
            IN  SelectSeq(cachedProjects, Hit))
    /\ emitted' = {"fire"}
    /\ returned' = <<>>
    /\ UNCHANGED <<cachedTags, showAllTagsForRepo, filterTagsQueries,
                   globalState, gitlabToken, maxTagsToDisplay, calls>>

setSearchQuery(query) ==
    /\ searchQuery' = Trim(ToLowerCase(query))
    /\ emitted' = {"fire"}
    /\ returned' = <<>>
    /\ UNCHANGED <<cachedProjects, cachedTags, showAllTagsForRepo, filterTagsQueries,
                   globalState, gitlabToken, maxTagsToDisplay, calls>>

\* a setFilterTagsQuery that narrows the cached tags instead of the view
setFilterTagsQuery_NarrowsCache(repoId, query) ==
    /\ filterTagsQueries' = IF query # <<>>
                            THEN MapSet(filterTagsQueries, repoId, Trim(ToLowerCase(query)))
                            ELSE MapDelete(filterTagsQueries, repoId)
    /\ cachedTags' =
           [R \in DOMAIN cachedTags |->
               IF R = repoId
               THEN LET Hit(tag) == Includes(ToLowerCase(tag.name), Trim(ToLowerCase(query)))
                    IN  SelectSeq(cachedTags[R], Hit)
               ELSE cachedTags[R]]
    /\ emitted' = {"fire"}
    /\ returned' = <<>>
    /\ UNCHANGED <<cachedProjects, showAllTagsForRepo, searchQuery,
                   globalState, gitlabToken, maxTagsToDisplay, calls>>

setFilterTagsQuery(repoId, query) ==
    /\ filterTagsQueries' = IF query # <<>>
                            THEN MapSet(filterTagsQueries, repoId, Trim(ToLowerCase(query)))
                            ELSE MapDelete(filterTagsQueries, repoId)
    /\ emitted' = {"fire"}
    /\ returned' = <<>>
    /\ UNCHANGED <<cachedProjects, cachedTags, showAllTagsForRepo, searchQuery,
                   globalState, gitlabToken, maxTagsToDisplay, calls>>

clearFilters ==
    /\ searchQuery' = <<>>
    /\ filterTagsQueries' = EmptyMap
    /\ showAllTagsForRepo' = {}
    /\ emitted' = {"collapseAll", "fire"}
    /\ returned' = <<>>
    /\ UNCHANGED <<cachedProjects, cachedTags, globalState, gitlabToken,
                   maxTagsToDisplay, calls>>

\* a clearFilterForRepo that stores a blank query instead of deleting the entry
clearFilterForRepo_StoresBlank(repoId) ==
    /\ filterTagsQueries' = MapSet(filterTagsQueries, repoId, <<" ">>)
    /\ emitted' = {"fire"}
    /\ returned' = <<>>
    /\ UNCHANGED <<cachedProjects, cachedTags, showAllTagsForRepo, searchQuery,
                   globalState, gitlabToken, maxTagsToDisplay, calls>>

clearFilterForRepo(repoId) ==
    /\ filterTagsQueries' = MapDelete(filterTagsQueries, repoId)
    /\ emitted' = {"fire"}
    /\ returned' = <<>>
    /\ UNCHANGED <<cachedProjects, cachedTags, showAllTagsForRepo, searchQuery,
                   globalState, gitlabToken, maxTagsToDisplay, calls>>

\* a showAllTags that updates the set and leaves the host unnotified
showAllTags_Silent(repoId) ==
    /\ showAllTagsForRepo' = showAllTagsForRepo \cup {repoId}
    /\ emitted' = {}
    /\ returned' = <<>>
    /\ UNCHANGED <<cachedProjects, cachedTags, searchQuery, filterTagsQueries,
                   globalState, gitlabToken, maxTagsToDisplay, calls>>

showAllTags(repoId) ==
    /\ showAllTagsForRepo' = showAllTagsForRepo \cup {repoId}
    /\ emitted' = {"fire"}
    /\ returned' = <<>>
    /\ UNCHANGED <<cachedProjects, cachedTags, searchQuery, filterTagsQueries,
                   globalState, gitlabToken, maxTagsToDisplay, calls>>

clearShowAllTagsForRepo(repoId) ==
    /\ showAllTagsForRepo' = showAllTagsForRepo \ {repoId}
    /\ emitted' = {"fire"}
    /\ returned' = <<>>
    /\ UNCHANGED <<cachedProjects, cachedTags, searchQuery, filterTagsQueries,
                   globalState, gitlabToken, maxTagsToDisplay, calls>>

\* a collapse handler that drops the cached tags of the repository as well
onDidCollapseElement_EvictsTags(repoId) ==
    /\ filterTagsQueries' = MapDelete(filterTagsQueries, repoId)
    /\ showAllTagsForRepo' = showAllTagsForRepo \ {repoId}
    /\ cachedTags' = MapDelete(cachedTags, repoId)
    /\ emitted' = {"fire"}
    /\ returned' = <<>>
    /\ UNCHANGED <<cachedProjects, searchQuery, globalState, gitlabToken,
                   maxTagsToDisplay, calls>>

\* a collapse handler that clears the filters and show-all state of every repository
onDidCollapseElement_ClearsAll(repoId) ==
    /\ filterTagsQueries' = EmptyMap
    /\ showAllTagsForRepo' = {}
    /\ emitted' = {"fire"}
    /\ returned' = <<>>
    /\ UNCHANGED <<cachedProjects, cachedTags, searchQuery, globalState, gitlabToken,
                   maxTagsToDisplay, calls>>

\* treeView.onDidCollapseElement for a repo item: clearFilterForRepo, then
\* clearShowAllTagsForRepo, in one handler
onDidCollapseElement(repoId) ==
    /\ filterTagsQueries' = MapDelete(filterTagsQueries, repoId)
    /\ showAllTagsForRepo' = showAllTagsForRepo \ {repoId}
    /\ emitted' = {"fire"}
    /\ returned' = <<>>
    /\ UNCHANGED <<cachedProjects, cachedTags, searchQuery, globalState, gitlabToken,
                   maxTagsToDisplay, calls>>

\* the setToken command with a token entered: the token is stored, then refresh()
setToken ==
    /\ gitlabToken' = TRUE
    /\ cachedProjects' = <<>>
    /\ cachedTags' = EmptyMap
    /\ showAllTagsForRepo' = {}
    /\ filterTagsQueries' = EmptyMap
    /\ globalState' = <<>>
    /\ emitted' = {"globalState.update", "fire"}
    /\ returned' = <<>>
    /\ UNCHANGED <<searchQuery, maxTagsToDisplay, calls>>

(***************************************************************************)
(* getChildren: one call per slot of calls, one action per await.  The     *)
(* first await (secrets.get) has nothing of the provider read or written   *)
(* before it, so the call and the read of the token are one step.          *)
(***************************************************************************)
IdleCall ==
    [pc |-> "idle", element |-> RootElement, page |-> 0, projects |-> <<>>,
     pageProjects |-> <<>>, projectChecks |-> <<>>, project |-> NoProject,
     allTags |-> <<>>, enrichedTags |-> <<>>]

\* the place of a detail request that has not answered yet
PendingTag == [pending |-> TRUE]

\* a step of a call that neither ends it nor touches the provider
Continue(c, call) ==
    /\ calls' = [calls EXCEPT ![c] = call]
    /\ emitted' = {}
    /\ returned' = <<>>
    /\ UNCHANGED <<cachedProjects, cachedTags, showAllTagsForRepo, searchQuery,
                   filterTagsQueries, globalState, gitlabToken, maxTagsToDisplay>>

\* the call hands children to the host
Return(c, element, children) ==
    /\ calls' = [calls EXCEPT ![c] = IdleCall]
    /\ emitted' = {}
    /\ returned' = <<[element |-> element, children |-> children]>>
    /\ UNCHANGED <<cachedProjects, cachedTags, showAllTagsForRepo, searchQuery,
                   filterTagsQueries, globalState, gitlabToken, maxTagsToDisplay>>

\* a fetch failed in transport and nothing catches it: the call's promise rejects
Reject(c) ==
    /\ calls' = [calls EXCEPT ![c] = IdleCall]
    /\ emitted' = {"rejected"}
    /\ returned' = <<>>
    /\ UNCHANGED <<cachedProjects, cachedTags, showAllTagsForRepo, searchQuery,
                   filterTagsQueries, globalState, gitlabToken, maxTagsToDisplay>>

\* the host calls getChildren(element): lines 180-288, up to the next await
getChildren(c, element) ==
    /\ calls[c].pc = "idle"
    /\ LET call == [IdleCall EXCEPT !.element = element]
       IN  IF ~gitlabToken THEN Return(c, element, <<>>)
           ELSE IF element.context = "root"
           THEN IF Len(cachedProjects) = 0
                THEN Continue(c, [call EXCEPT !.pc = "projects", !.page = 1])
                ELSE Return(c, element, RootChildren)
           ELSE IF element.context = "folder"
           THEN Return(c, element, FolderChildren(element))
           ELSE IF element.context = "project" /\ element.projectId # NoId
           THEN Continue(c, [call EXCEPT !.pc = "repos"])
           ELSE IF element.context = "repo" /\ element.projectId # NoId
                   /\ element.repoId # NoId
           THEN LET project == FindProject(cachedProjects, element.projectId)
                IN  IF MapHas(cachedTags, element.repoId)
                    THEN Return(c, element,
                                RepoChildren(element, project, cachedTags[element.repoId]))
                    ELSE Continue(c, [call EXCEPT !.pc = "tags", !.page = 1,
                                                  !.project = project])
           ELSE Return(c, element, <<>>)

\* fetchProjects returns projects: getChildren stores them and starts the save
StoreProjects(c, projects, messages) ==
    /\ cachedProjects' = projects
    /\ globalState' = projects
    /\ calls' = [calls EXCEPT ![c] = [IdleCall EXCEPT !.pc = "saved"]]
    /\ emitted' = messages \cup {"globalState.update"}
    /\ returned' = <<>>
    /\ UNCHANGED <<cachedTags, showAllTagsForRepo, searchQuery, filterTagsQueries,
                   gitlabToken, maxTagsToDisplay>>

\* the projects of a page whose check came back with the project
Accepted(pageProjects, projectChecks) ==
    LET f[k \in 0..Len(pageProjects)] ==
            IF k = 0 THEN <<>>
            ELSE IF projectChecks[k] = "project" THEN Append(f[k - 1], pageProjects[k])
                 ELSE f[k - 1]
    IN  f[Len(pageProjects)]

\* a loop that leaves out the page after the one just added
NextProjectsPage_SkipsPage(call, pageProjects, projectChecks) ==
    [call EXCEPT !.pc = "projects", !.page = call.page + 2,
                 !.projects = call.projects \o Accepted(pageProjects, projectChecks),
                 !.pageProjects = <<>>, !.projectChecks = <<>>]

\* all checks of the page are in: the page is added and the next one requested
NextProjectsPage(call, pageProjects, projectChecks) ==
    [call EXCEPT !.pc = "projects", !.page = call.page + 1,
                 !.projects = call.projects \o Accepted(pageProjects, projectChecks),
                 !.pageProjects = <<>>, !.projectChecks = <<>>]

\* checks that send the repository request for every project of the page
InitialChecks_ProbesAll(pageProjects) ==
    [i \in 1..Len(pageProjects) |-> "pending"]

\* the checks a page starts with: a project without registry needs no request
InitialChecks(pageProjects) ==
    [i \in 1..Len(pageProjects) |->
        IF pageProjects[i].container_registry_enabled THEN "pending" ELSE "null"]

\* the answer to the project listing request of page calls[c].page
ProjectsResponse(c, outcome) ==
    /\ calls[c].pc = "projects"
    /\ LET call == calls[c]
           pageProjects == PageOf(RemoteProjectPages, call.page)
           projectChecks == InitialChecks(pageProjects)
       IN  CASE outcome = "reject" -> Reject(c)
             [] outcome = "notok" -> StoreProjects(c, call.projects, {"showErrorMessage"})
             [] outcome = "ok" /\ Len(pageProjects) = 0 ->
                  StoreProjects(c, call.projects, {})
             [] OTHER ->
                  IF \E i \in 1..Len(pageProjects) : projectChecks[i] = "pending"
                  THEN Continue(c, [call EXCEPT !.pc = "probes",
                                                !.pageProjects = pageProjects,
                                                !.projectChecks = projectChecks])
                  ELSE Continue(c, NextProjectsPage(call, pageProjects, projectChecks))

\* the answer to the repository probe of the i-th project of the page
ProbeResponse(c, i, outcome) ==
    /\ calls[c].pc = "probes"
    /\ i \in 1..Len(calls[c].projectChecks)
    /\ calls[c].projectChecks[i] = "pending"
    /\ LET call == calls[c]
           found == outcome = "ok" /\ Len(RemoteRepos(call.pageProjects[i].id)) > 0
           projectChecks == [call.projectChecks EXCEPT
                                ![i] = IF found THEN "project" ELSE "null"]
       IN  IF outcome = "reject" THEN Reject(c)
           ELSE IF \E j \in 1..Len(projectChecks) : projectChecks[j] = "pending"
           THEN Continue(c, [call EXCEPT !.projectChecks = projectChecks])
           ELSE Continue(c, NextProjectsPage(call, call.pageProjects, projectChecks))

\* saveCachedProjects has resolved: the root's children are computed
SaveDone(c) ==
    /\ calls[c].pc = "saved"
    /\ Return(c, calls[c].element, RootChildren)

\* a repository listing of which only the first record is shown
ReposResponse_FirstOnly(c, outcome) ==
    /\ calls[c].pc = "repos"
    /\ LET element == calls[c].element
           repos == RemoteRepos(element.projectId)
       IN  CASE outcome = "reject" -> Reject(c)
             [] outcome = "notok" -> Return(c, element, <<>>)
             [] OTHER -> Return(c, element, ProjectChildren(element, SubSeq(repos, 1, 1)))

\* fetchRegistryRepos answers
ReposResponse(c, outcome) ==
    /\ calls[c].pc = "repos"
    /\ LET element == calls[c].element
       IN  CASE outcome = "reject" -> Reject(c)
             [] outcome = "notok" -> Return(c, element, <<>>)
             [] OTHER -> Return(c, element,
                                ProjectChildren(element, RemoteRepos(element.projectId)))

\* fetchRegistryTags returns: the sorted tags are cached and the children computed
StoreTags(c, enrichedTags) ==
    LET call == calls[c]
        tags == ArraySort(enrichedTags, TagCompare)
    IN  /\ cachedTags' = MapSet(cachedTags, call.element.repoId, tags)
        /\ calls' = [calls EXCEPT ![c] = IdleCall]
        /\ emitted' = {}
        /\ returned' = <<[element |-> call.element,
                          children |-> RepoChildren(call.element, call.project, tags)]>>
        /\ UNCHANGED <<cachedProjects, showAllTagsForRepo, searchQuery,
                       filterTagsQueries, globalState, gitlabToken, maxTagsToDisplay>>

\* the listing loop has ended with allTags: the detail requests go out
StartDetails(c, allTags) ==
    IF Len(allTags) = 0 THEN StoreTags(c, <<>>)
    ELSE Continue(c, [calls[c] EXCEPT !.pc = "details", !.allTags = allTags,
                          !.enrichedTags = [i \in 1..Len(allTags) |-> PendingTag]])

\* a tag listing that forgets the names it has when a page fails
TagsResponse_DropsOnFailure(c, outcome) ==
    /\ calls[c].pc = "tags"
    /\ LET call == calls[c]
           pageTags == PageOf(RemoteTagPages(call.element.repoId), call.page)
       IN  CASE outcome = "reject" -> Reject(c)
             [] outcome = "notok" -> StartDetails(c, <<>>)
             [] Len(pageTags) = 0 -> StartDetails(c, call.allTags)
             [] OTHER -> Continue(c, [call EXCEPT !.page = call.page + 1,
                                                  !.allTags = call.allTags \o pageTags])

\* the answer to the tag listing request of page calls[c].page
TagsResponse(c, outcome) ==
    /\ calls[c].pc = "tags"
    /\ LET call == calls[c]
           pageTags == PageOf(RemoteTagPages(call.element.repoId), call.page)
       IN  CASE outcome = "reject" -> Reject(c)
             [] outcome = "notok" \/ Len(pageTags) = 0 -> StartDetails(c, call.allTags)
             [] OTHER -> Continue(c, [call EXCEPT !.page = call.page + 1,
                                                  !.allTags = call.allTags \o pageTags])

\* what the detail request of a tag yields
Enriched(repoId, name, outcome) ==
    IF outcome = "ok" THEN RemoteTagDetail(repoId, name)
    ELSE Tag(name, Undefined, Undefined)

\* a detail answer that returns the list at once, the unanswered tags by name only
DetailResponse_FirstAnswer(c, i, outcome) ==
    /\ calls[c].pc = "details"
    /\ i \in 1..Len(calls[c].enrichedTags)
    /\ calls[c].enrichedTags[i] = PendingTag
    /\ LET call == calls[c]
       IN  IF outcome = "reject" THEN Reject(c)
           ELSE StoreTags(c, [j \in 1..Len(call.allTags) |->
                                 IF j = i \/ call.enrichedTags[j] = PendingTag
                                 THEN Enriched(call.element.repoId, call.allTags[j],
                                               IF j = i THEN outcome ELSE "notok")
                                 ELSE call.enrichedTags[j]])

\* the answer to the detail request of the i-th listed tag
DetailResponse(c, i, outcome) ==
    /\ calls[c].pc = "details"
    /\ i \in 1..Len(calls[c].enrichedTags)
    /\ calls[c].enrichedTags[i] = PendingTag
    /\ LET call == calls[c]
           enrichedTags == [call.enrichedTags EXCEPT
                               ![i] = Enriched(call.element.repoId, call.allTags[i], outcome)]
       IN  IF outcome = "reject" THEN Reject(c)
           ELSE IF \E j \in 1..Len(enrichedTags) : enrichedTags[j] = PendingTag
           THEN Continue(c, [call EXCEPT !.enrichedTags = enrichedTags])
           ELSE StoreTags(c, enrichedTags)

(***************************************************************************)
(* What the user and the host feed the provider.                           *)
(***************************************************************************)
\* the project list a complete fetch yields: every project with a registry repository
CompleteProjects == <<pApp, pApi, pWeb>>

\* the tree item of a project as the folder level hands it out
ProjectElement(projectId) ==
    LET p == FindProject(CompleteProjects, projectId) IN ProjectItem(p.name, p)

\* the tree item of a repository as the project level hands it out
RepoElement(repoId) ==
    LET items == ProjectChildren(ProjectElement(OwnerOf(repoId)), RemoteRepos(OwnerOf(repoId)))
    IN  items[CHOOSE i \in 1..Len(items) : items[i].repoId = repoId]

\* what the user types into the tag filter box
FilterInputs == {<<>>, <<" ">>, <<"v">>, <<"x">>}

\* what the user types into the project search box
SearchInputs == {<<>>, <<" ">>, <<"A", "p">>, <<"z">>}

\* the user is not in a scripted session
Free == [phase |-> "free", rootBefore |-> <<>>, rootAfter |-> <<>>]

(***************************************************************************)
(* After activation: the provider is constructed and loadCachedProjects    *)
(* has put the stored list, if any, into cachedProjects.                   *)
(***************************************************************************)
Activated(stored) ==
    /\ globalState \in stored
    /\ cachedProjects = globalState
    /\ cachedTags = EmptyMap
    /\ showAllTagsForRepo = {}
    /\ searchQuery = <<>>
    /\ filterTagsQueries = EmptyMap
    /\ calls = [c \in Calls |-> IdleCall]
    /\ emitted = {}
    /\ returned = <<>>

(***************************************************************************)
(* Spec: one repository with three tags on two pages, resolved by one call *)
(* at a time, with every mutator of the provider in between.               *)
(***************************************************************************)
Init ==
    /\ Activated({CompleteProjects})
    /\ gitlabToken = TRUE
    /\ maxTagsToDisplay \in 0..MaxCutoff
    /\ scenario = Free

Next ==
    \/ refresh /\ UNCHANGED scenario
    \/ setToken /\ UNCHANGED scenario
    \/ (\E q \in SearchInputs : setSearchQuery(q)) /\ UNCHANGED scenario
    \/ (\E q \in FilterInputs : setFilterTagsQuery(1, q)) /\ UNCHANGED scenario
    \/ clearFilters /\ UNCHANGED scenario
    \/ clearFilterForRepo(1) /\ UNCHANGED scenario
    \/ showAllTags(1) /\ UNCHANGED scenario
    \/ clearShowAllTagsForRepo(1) /\ UNCHANGED scenario
    \/ onDidCollapseElement(1) /\ UNCHANGED scenario
    \/ getChildren(1, RepoElement(1)) /\ UNCHANGED scenario
    \/ (\E o \in Outcomes : TagsResponse(1, o)) /\ UNCHANGED scenario
    \/ (\E i \in 1..3, o \in Outcomes : DetailResponse(1, i, o)) /\ UNCHANGED scenario

Spec == Init /\ [][Next]_vars

(***************************************************************************)
(* SpecConcurrent: the host resolves one repository by MaxCalls calls at a *)
(* time, their requests answering in any order, the user acting in between.*)
(***************************************************************************)
InitConcurrent ==
    /\ Activated({CompleteProjects})
    /\ gitlabToken = TRUE
    /\ maxTagsToDisplay \in {1, MaxCutoff}
    /\ scenario = Free

NextConcurrent ==
    \/ refresh /\ UNCHANGED scenario
    \/ setFilterTagsQuery(2, <<"v">>) /\ UNCHANGED scenario
    \/ showAllTags(2) /\ UNCHANGED scenario
    \/ onDidCollapseElement(2) /\ UNCHANGED scenario
    \/ (\E c \in Calls : getChildren(c, RepoElement(2))) /\ UNCHANGED scenario
    \/ (\E c \in Calls, o \in Outcomes : TagsResponse(c, o)) /\ UNCHANGED scenario
    \/ (\E c \in Calls, i \in 1..2, o \in Outcomes : DetailResponse(c, i, o))
           /\ UNCHANGED scenario

SpecConcurrent == InitConcurrent /\ [][NextConcurrent]_vars

(***************************************************************************)
(* SpecProjects: the project level.  The root is resolved, fetching the    *)
(* project list page by page when the cache is empty; folders and projects *)
(* are expanded; the user searches, clears and refreshes.                  *)
(***************************************************************************)
\* the folder items the tree can hold for the remote projects
FolderElements ==
    {FolderItem(Str_g, Str_g), FolderItem(<<"s", "u", "b">>, Str_g_sub),
     FolderItem(Str_Hub, Str_Hub)}

InitProjects ==
    /\ gitlabToken \in BOOLEAN
    /\ Activated(IF gitlabToken THEN {<<>>, CompleteProjects} ELSE {<<>>})
    /\ maxTagsToDisplay = MaxCutoff
    /\ scenario = Free

NextProjects ==
    \/ refresh /\ UNCHANGED scenario
    \/ setToken /\ UNCHANGED scenario
    \/ (\E q \in SearchInputs : setSearchQuery(q)) /\ UNCHANGED scenario
    \/ clearFilters /\ UNCHANGED scenario
    \/ getChildren(1, RootElement) /\ UNCHANGED scenario
    \/ (\E o \in Outcomes : ProjectsResponse(1, o)) /\ UNCHANGED scenario
    \/ (\E i \in 1..3, o \in Outcomes : ProbeResponse(1, i, o)) /\ UNCHANGED scenario
    \/ SaveDone(1) /\ UNCHANGED scenario
    \/ (\E element \in FolderElements : getChildren(1, element)) /\ UNCHANGED scenario
    \/ (\E id \in {1, 3} : getChildren(1, ProjectElement(id))) /\ UNCHANGED scenario
    \/ (\E o \in Outcomes : ReposResponse(1, o)) /\ UNCHANGED scenario

SpecProjects == InitProjects /\ [][NextProjects]_vars

\* every request that is out is answered in the end, by an answer or a failure,
\* and the continuation of the await runs
SpecProjectsFair ==
    /\ SpecProjects
    /\ WF_vars((\E o \in Outcomes : ProjectsResponse(1, o)) /\ UNCHANGED scenario)
    /\ WF_vars((\E i \in 1..3, o \in Outcomes : ProbeResponse(1, i, o))
                   /\ UNCHANGED scenario)

(***************************************************************************)
(* SpecSearch: a session on a populated project cache, without refresh.    *)
(* The user has the root resolved, searches, clears the search and has the *)
(* root resolved again, expanding folders and filtering tags in between.   *)
(* scenario keeps the place in the session and the two root results.       *)
(***************************************************************************)
InitSearch ==
    /\ Activated({CompleteProjects, <<pApp>>})
    /\ gitlabToken = TRUE
    /\ maxTagsToDisplay = MaxCutoff
    /\ scenario = [phase |-> "start", rootBefore |-> <<>>, rootAfter |-> <<>>]

NextSearch ==
    \/ /\ scenario.phase = "start"
       /\ getChildren(1, RootElement)
       /\ returned' # <<>>
       /\ scenario' = [scenario EXCEPT !.phase = "resolved",
                                       !.rootBefore = returned'[1].children]
    \/ /\ scenario.phase \in {"resolved", "searched"}
       /\ \E q \in SearchInputs : setSearchQuery(q)
       /\ scenario' = [scenario EXCEPT !.phase = "searched"]
    \/ /\ scenario.phase = "searched"
       /\ getChildren(1, RootElement)
       /\ UNCHANGED scenario
    \/ /\ scenario.phase = "searched"
       /\ setSearchQuery(<<>>)
       /\ scenario' = [scenario EXCEPT !.phase = "cleared"]
    \/ /\ scenario.phase = "searched"
       /\ clearFilters
       /\ scenario' = [scenario EXCEPT !.phase = "cleared"]
    \/ /\ scenario.phase = "cleared"
       /\ getChildren(1, RootElement)
       /\ returned' # <<>>
       /\ scenario' = [scenario EXCEPT !.phase = "after",
                                       !.rootAfter = returned'[1].children]
    \/ (\E element \in FolderElements : getChildren(1, element)) /\ UNCHANGED scenario
    \/ (\E q \in FilterInputs : setFilterTagsQuery(1, q)) /\ UNCHANGED scenario
    \/ showAllTags(1) /\ UNCHANGED scenario
    \/ onDidCollapseElement(1) /\ UNCHANGED scenario

SpecSearch == InitSearch /\ [][NextSearch]_vars

(***************************************************************************)
(* SpecFilters: the filter, search and show-all state of two repositories  *)
(* under every command and host event that writes it.                      *)
(***************************************************************************)
\* the repositories whose nodes the user works on
FilteredRepos == {1, 2}

InitFilters ==
    /\ Activated({CompleteProjects})
    /\ gitlabToken = TRUE
    /\ maxTagsToDisplay = MaxCutoff
    /\ scenario = Free

NextFilters ==
    \/ refresh /\ UNCHANGED scenario
    \/ (\E q \in SearchInputs : setSearchQuery(q)) /\ UNCHANGED scenario
    \/ (\E R \in FilteredRepos, q \in FilterInputs : setFilterTagsQuery(R, q))
           /\ UNCHANGED scenario
    \/ clearFilters /\ UNCHANGED scenario
    \/ (\E R \in FilteredRepos : clearFilterForRepo(R)) /\ UNCHANGED scenario
    \/ (\E R \in FilteredRepos : showAllTags(R)) /\ UNCHANGED scenario
    \/ (\E R \in FilteredRepos : clearShowAllTagsForRepo(R)) /\ UNCHANGED scenario
    \/ (\E R \in FilteredRepos : onDidCollapseElement(R)) /\ UNCHANGED scenario

SpecFilters == InitFilters /\ [][NextFilters]_vars

(***************************************************************************)
(* SpecFetches: fetch on a miss at the root and at repository 1, by one     *)
(* call at a time, with refresh at any moment.  scenario records that a    *)
(* refresh has run while a fetch was out; from then on the host starts no  *)
(* further resolution, so that whatever is written comes from that fetch.  *)
(***************************************************************************)
InitFetches ==
    /\ Activated({<<>>, CompleteProjects})
    /\ gitlabToken = TRUE
    /\ maxTagsToDisplay = MaxCutoff
    /\ scenario = [phase |-> "before"]

NextFetches ==
    \/ refresh /\ scenario' = IF calls[1].pc # "idle" THEN [phase |-> "refreshed"]
                              ELSE scenario
    \/ scenario.phase = "before" /\ getChildren(1, RootElement) /\ UNCHANGED scenario
    \/ scenario.phase = "before" /\ getChildren(1, RepoElement(1)) /\ UNCHANGED scenario
    \/ (\E o \in Outcomes : ProjectsResponse(1, o)) /\ UNCHANGED scenario
    \/ (\E i \in 1..3, o \in Outcomes : ProbeResponse(1, i, o)) /\ UNCHANGED scenario
    \/ SaveDone(1) /\ UNCHANGED scenario
    \/ (\E o \in Outcomes : TagsResponse(1, o)) /\ UNCHANGED scenario
    \/ (\E i \in 1..3, o \in Outcomes : DetailResponse(1, i, o)) /\ UNCHANGED scenario

SpecFetches == InitFetches /\ [][NextFetches]_vars

(***************************************************************************)
(* SpecTwoRepos: the two repositories of project app, resolved one after   *)
(* the other by one call at a time, with refresh and the root fetch.       *)
(* scenario keeps, for each of the two, the name and image reference of    *)
(* the tag items its node shows; a refresh makes the host drop them.       *)
(***************************************************************************)
\* the name and image reference of every tag item of a child list
References(children) ==
    {[tagName |-> item.tagName, imageUrl |-> item.imageUrl] :
        item \in {c \in Range(children) : c.context = "tag" /\ c.tagName # UndefinedStr}}

\* the host shows what a repository resolution has returned
Shows ==
    scenario' =
        IF returned' # <<>> /\ returned'[1].element.context = "repo"
        THEN [scenario EXCEPT !.shown = MapSet(@, returned'[1].element.repoId,
                                               References(returned'[1].children))]
        ELSE scenario

InitTwoRepos ==
    /\ Activated({CompleteProjects})
    /\ gitlabToken = TRUE
    /\ maxTagsToDisplay = MaxCutoff
    /\ scenario = [phase |-> "shown", shown |-> EmptyMap]

NextTwoRepos ==
    \/ refresh /\ scenario' = [scenario EXCEPT !.shown = EmptyMap]
    \/ getChildren(1, RootElement) /\ UNCHANGED scenario
    \/ (\E o \in Outcomes : ProjectsResponse(1, o)) /\ UNCHANGED scenario
    \/ (\E i \in 1..3, o \in Outcomes : ProbeResponse(1, i, o)) /\ UNCHANGED scenario
    \/ SaveDone(1) /\ UNCHANGED scenario
    \/ (\E R \in FilteredRepos : getChildren(1, RepoElement(R))) /\ Shows
    \/ (\E o \in Outcomes : TagsResponse(1, o)) /\ Shows
    \/ (\E i \in 1..3, o \in Outcomes : DetailResponse(1, i, o)) /\ Shows

SpecTwoRepos == InitTwoRepos /\ [][NextTwoRepos]_vars

(***************************************************************************)
(* SpecFormat: formatBytes applied to one byte count.  scenario holds the  *)
(* argument and, once the function has run, its result.                    *)
(***************************************************************************)
\* the longest byte count tried, in digits to the base 1024
MaxLimbs == 6

\* the digits tried: the least, the greatest, one and a half
LimbValues == {0, 1, 512, 1023}

\* the numbers tried: zero, and every digit sequence without a leading zero
ByteCounts ==
    {<<0>>} \cup
    UNION {{limbs \in [1..n -> LimbValues] : limbs[1] # 0} : n \in 1..MaxLimbs}

InitFormat ==
    /\ Activated({CompleteProjects})
    /\ gitlabToken = TRUE
    /\ maxTagsToDisplay = MaxCutoff
    /\ \/ scenario = [phase |-> "argument", defined |-> FALSE, limbs |-> <<>>, text |-> <<>>]
       \/ \E limbs \in ByteCounts :
              scenario = [phase |-> "argument", defined |-> TRUE, limbs |-> limbs,
                          text |-> <<>>]

\* the call formatBytes(bytes)
FormatStep ==
    /\ scenario.phase = "argument"
    /\ scenario' = [scenario EXCEPT
                       !.phase = "formatted",
                       !.text = IF scenario.defined THEN formatNumber(scenario.limbs)
                                ELSE formatBytes(Undefined)]
    /\ UNCHANGED <<cachedProjects, cachedTags, showAllTagsForRepo, searchQuery,
                   filterTagsQueries, globalState, gitlabToken, maxTagsToDisplay,
                   calls, emitted, returned>>

NextFormat == FormatStep

SpecFormat == InitFormat /\ [][NextFormat]_vars

(***************************************************************************)
(* Properties.  A getChildren result is read in the state its returning    *)
(* step leaves: returned holds it, and the provider's fields are those the *)
(* result was computed from.                                               *)
(***************************************************************************)
\* the last step returned the children of a repository item
RepoResolved == returned # <<>> /\ returned[1].element.context = "repo"

Resolved == returned[1].element

Children == returned[1].children

\* a string that is empty or only blanks
Blank(q) == \A i \in 1..Len(q) : q[i] = " "

\* the tags cached for repoId whose lower-cased name contains the stored filter
MatchingTags(repoId) ==
    LET q == IF repoId \in DOMAIN filterTagsQueries THEN filterTagsQueries[repoId] ELSE <<>>
        Hit(tag) == Includes(ToLowerCase(tag.name), q)
    IN  SelectSeq(cachedTags[repoId], Hit)

Min(a, b) == IF a < b THEN a ELSE b

\* C1: a step of refresh() leaves the project list, the tag cache, the
\* show-all set, the global search string and the tag filters empty, has handed
\* the empty project list to the store and has fired the change signal.
C1_RefreshClearsAll ==
    [][refresh => /\ cachedProjects' = <<>>
                  /\ cachedTags' = EmptyMap
                  /\ showAllTagsForRepo' = {}
                  /\ searchQuery' = <<>>
                  /\ filterTagsQueries' = EmptyMap
                  /\ globalState' = <<>>
                  /\ {"globalState.update", "fire"} \subseteq emitted']_vars

\* C4: a repository resolved with F >= 1 filtered tags and cutoff N yields the
\* filter item, then the first min(N, F) filtered tags, then a show-all item
\* saying F - N exactly when F > N; in show-all state it yields the filter item
\* and all F tags and no show-all item.
C4_CutoffAndShowAll ==
    (RepoResolved /\ Resolved.repoId \in DOMAIN cachedTags
                  /\ Len(MatchingTags(Resolved.repoId)) >= 1) =>
        LET R == Resolved.repoId
            tags == MatchingTags(R)
            F == Len(tags)
            N == maxTagsToDisplay
            shown == IF R \in showAllTagsForRepo THEN F ELSE Min(N, F)
            more == R \notin showAllTagsForRepo /\ F > N
        IN  /\ Len(Children) = 1 + shown + (IF more THEN 1 ELSE 0)
            /\ Children[1].context = "filter"
            /\ \A i \in 1..shown : /\ Children[1 + i].context = "tag"
                                   /\ Children[1 + i].tagName = tags[i].name
            /\ more => /\ Children[Len(Children)].context = "showAllTags"
                       /\ Children[Len(Children)].label =
                              <<"Show All Tags... (", ToString(F - N), " more)">>
            /\ ~more => \A i \in 1..Len(Children) : Children[i].context # "showAllTags"

\* three tags match, the cutoff is two: four children, the last says "1 more"
C4_Witness ==
    /\ RepoResolved /\ Resolved.repoId \in DOMAIN cachedTags
    /\ Len(MatchingTags(Resolved.repoId)) = 3
    /\ maxTagsToDisplay = 2
    /\ Resolved.repoId \notin showAllTagsForRepo
    /\ Len(Children) = 4
    /\ Children[4].label = <<"Show All Tags... (", "1", " more)">>

\* C5: every cached tag sequence is sorted by creation time descending, a
\* missing time counting as the minimum: no tag without a time stands before a
\* tag with one, and of two tags with a time the later one stands first.
C5_CachedTagsSorted ==
    \A R \in DOMAIN cachedTags :
        \A i, j \in 1..Len(cachedTags[R]) :
            i < j =>
                LET a == cachedTags[R][i].created_at
                    b == cachedTags[R][j].created_at
                IN  /\ ~(a = Undefined /\ b # Undefined)
                    /\ (a # Undefined /\ b # Undefined) => a >= b

\* C6: a step that sets a filter to an empty or blank string leaves no entry
\* for that scope: no entry for the repository in the tag filter map, and no
\* global search string.
C6_BlankClearsEntry ==
    [][/\ \A q \in FilterInputs :
              (Blank(q) /\ setFilterTagsQuery(1, q)) => 1 \notin DOMAIN filterTagsQueries'
       /\ \A q \in SearchInputs :
              (Blank(q) /\ setSearchQuery(q)) => searchQuery' = <<>>]_vars

\* C7: a repository resolved while its filter matches none of its cached tag
\* names yields exactly the filter item followed by the one placeholder.
C7_NoMatchPlaceholder ==
    (RepoResolved /\ Resolved.repoId \in DOMAIN cachedTags
                  /\ Len(MatchingTags(Resolved.repoId)) = 0) =>
        /\ Len(Children) = 2
        /\ Children[1].context = "filter"
        /\ Children[2] = Leaf(<<"No tags match the filter">>, "tag")

\* three tags are cached, the filter "x" matches none, two children came back
C7_Witness ==
    /\ RepoResolved /\ Resolved.repoId \in DOMAIN cachedTags
    /\ Len(cachedTags[Resolved.repoId]) = 3
    /\ filterTagsQueries = [k \in {Resolved.repoId} |-> <<"x">>]
    /\ Len(Children) = 2

\* the detail requests of call that have not answered
PendingOf(call) == {i \in 1..Len(call.enrichedTags) : call.enrichedTags[i] = PendingTag}

\* C3: cachedTags[R] is written only by the step in which a resolution of R
\* receives the last outstanding detail answer of its finished listing (or ends
\* a listing that named no tag), and the entry written holds one resolved tag
\* per listed name; no entry ever holds a tag still pending.
C3_TagsCachedWhenResolved ==
    [][\A R \in DOMAIN cachedTags' :
          /\ \A i \in 1..Len(cachedTags'[R]) : cachedTags'[R][i] # PendingTag
          /\ (R \notin DOMAIN cachedTags \/ cachedTags'[R] # cachedTags[R]) =>
                \E c \in Calls :
                    /\ calls[c].element.repoId = R
                    /\ calls'[c].pc = "idle"
                    /\ \/ /\ calls[c].pc = "details"
                          /\ Cardinality(PendingOf(calls[c])) = 1
                          /\ Len(cachedTags'[R]) = Len(calls[c].allTags)
                          /\ {cachedTags'[R][i].name : i \in 1..Len(cachedTags'[R])}
                                 = Range(calls[c].allTags)
                       \/ /\ calls[c].pc = "tags"
                          /\ calls[c].allTags = <<>>
                          /\ cachedTags'[R] = <<>>]_vars

\* one call has cached both tags of the repository while another call for the
\* same repository still waits for detail answers
C3_Witness ==
    /\ 2 \in DOMAIN cachedTags
    /\ Len(cachedTags[2]) = 2
    /\ \E c \in Calls : /\ calls[c].pc = "details"
                        /\ calls[c].element.repoId = 2
                        /\ Cardinality(PendingOf(calls[c])) = 2

\* the last step returned the children of the root
RootResolved == returned # <<>> /\ returned[1].element.context = "root"

\* the last step returned the children of a folder item
FolderResolved == returned # <<>> /\ returned[1].element.context = "folder"

\* the children with the given context, in order
ChildrenOf(context) == LET Is(item) == item.context = context IN SelectSeq(Children, Is)

\* C2: whenever the project cache or the persisted list changes, both are
\* equal and either empty or the outcome of a listing that was paged through
\* to its first empty page; a listing cut short by a failing page leaves no
\* projects in either.
C2_ProjectCacheEmptyOrComplete ==
    [][(cachedProjects' # cachedProjects \/ globalState' # globalState) =>
          /\ cachedProjects' = globalState'
          /\ \/ cachedProjects' = <<>>
             \/ \E c \in Calls : /\ calls[c].pc = "projects"
                                 /\ calls'[c].pc = "saved"
                                 /\ PageOf(RemoteProjectPages, calls[c].page) = <<>>]_vars

\* C9: with no search active the root yields one folder per distinct first
\* namespace segment of the cached projects, and a folder with path P yields
\* the cached projects whose namespace is P, labelled by their names, and one
\* subfolder for every distinct path one segment below P that leads to a
\* cached project.
C9_FolderExpansion ==
    /\ (RootResolved /\ searchQuery = <<>> /\ cachedProjects # <<>>) =>
          /\ \A i \in 1..Len(Children) : /\ Children[i].context = "folder"
                                         /\ Children[i].label = Children[i].fullPath
          /\ {Children[i].fullPath : i \in 1..Len(Children)}
                 = {FirstSegment(p.namespace.full_path) : p \in Range(cachedProjects)}
          /\ Len(Children) = Cardinality({Children[i].fullPath : i \in 1..Len(Children)})
    /\ (FolderResolved /\ searchQuery = <<>>) =>
          LET P == Resolved.fullPath
              direct == {p \in Range(cachedProjects) : p.namespace.full_path = P}
              deeper == {p \in Range(cachedProjects) :
                            StartsWith(p.namespace.full_path, P \o <<"/">>)}
              NextPath(p) ==
                  SubSeq(p.namespace.full_path, 1,
                         SetMin({n \in Len(P) + 2..Len(p.namespace.full_path) + 1 :
                                    n = Len(p.namespace.full_path) + 1
                                    \/ p.namespace.full_path[n] = "/"}) - 1)
          IN  /\ {<<item.label, item.projectId>> : item \in Range(ChildrenOf("project"))}
                     = {<<p.name, p.id>> : p \in direct}
              /\ {item.fullPath : item \in Range(ChildrenOf("folder"))}
                     = {NextPath(p) : p \in deeper}
              /\ Len(Children) = Cardinality(direct)
                                   + Cardinality({NextPath(p) : p \in deeper})

\* the project of namespace g/sub is found under the folder g/sub, named "app"
C9_Witness ==
    /\ FolderResolved /\ searchQuery = <<>>
    /\ Resolved.fullPath = Str_g_sub
    /\ Len(Children) = 1
    /\ Children[1].context = "project"
    /\ Children[1].label = <<"a", "p", "p">>

C8_SearchThenClear ==
    scenario.phase = "after" => scenario.rootAfter = scenario.rootBefore

\* the search "ap" was set and cleared on the three cached projects, and the
\* root shows its two folders again
C8_Witness ==
    /\ scenario.phase = "after"
    /\ cachedProjects = CompleteProjects
    /\ Len(scenario.rootAfter) = 2
    /\ scenario.rootAfter[1].context = "folder"

\* C11: a step that only fires the change signal (setSearchQuery,
\* setFilterTagsQuery, clearFilterForRepo, showAllTags, clearShowAllTagsForRepo,
\* a collapse), a clearFilters step, and a repository resolution answered from
\* the tag cache leave the project list and every tag-cache entry as they were.
C11_FiltersKeepCaches ==
    [][(\/ emitted' = {"fire"}
        \/ emitted' = {"collapseAll", "fire"}
        \/ /\ returned' # <<>>
           /\ returned'[1].element.context = "repo"
           /\ returned'[1].element.repoId \in DOMAIN cachedTags
           /\ calls' = calls)
       => /\ cachedProjects' = cachedProjects
          /\ cachedTags' = cachedTags]_vars

\* a filter was just set while three tags and three projects are cached, a
\* search is active and the repository is in show-all state
C11_Witness ==
    /\ emitted = {"fire"}
    /\ cachedProjects = CompleteProjects
    /\ 1 \in DOMAIN cachedTags /\ Len(cachedTags[1]) = 3
    /\ filterTagsQueries = [k \in {1} |-> <<"x">>]
    /\ searchQuery = <<"a", "p">>
    /\ showAllTagsForRepo = {1}

\* the names of the tag items among the children the last step returned
ShownNames(children) ==
    LET IsTag(item) == item.context = "tag" /\ item.tagName # UndefinedStr
        items == SelectSeq(children, IsTag)
    IN  [i \in 1..Len(items) |-> items[i].tagName]

C13_CollapseClearsOneRepo ==
    [][\A R \in FilteredRepos :
          onDidCollapseElement(R) =>
              /\ R \notin DOMAIN filterTagsQueries'
              /\ R \notin showAllTagsForRepo'
              /\ searchQuery' = searchQuery
              /\ \A Q \in FilteredRepos \ {R} :
                     /\ (Q \in DOMAIN filterTagsQueries') = (Q \in DOMAIN filterTagsQueries)
                     /\ Q \in DOMAIN filterTagsQueries =>
                            filterTagsQueries'[Q] = filterTagsQueries[Q]
                     /\ (Q \in showAllTagsForRepo') = (Q \in showAllTagsForRepo)]_vars

\* repository 1 was collapsed: it has lost filter and show-all state, while
\* repository 2 keeps its filter "v" and its show-all state and the search stays
C13_Witness ==
    /\ emitted = {"fire"}
    /\ filterTagsQueries = [k \in {2} |-> <<"v">>]
    /\ showAllTagsForRepo = {2}
    /\ searchQuery = <<"a", "p">>

\* C14: after a step of clearFilterForRepo(R), getFilterTagsQuery(R) is the
\* empty string, whatever was stored for R before.
C14_ClearedFilterReadsEmpty ==
    [][\A R \in FilteredRepos :
          clearFilterForRepo(R) => getFilterTagsQuery(R)' = <<>>]_vars

\* repository 1 has no filter entry after a step that only fired, while
\* repository 2 still has one
C14_Witness ==
    /\ emitted = {"fire"}
    /\ 1 \notin DOMAIN filterTagsQueries
    /\ getFilterTagsQuery(1) = <<>>
    /\ getFilterTagsQuery(2) = <<"x">>

\* the tag items among the children of a resolution
TagItems(children) ==
    LET IsTag(item) == item.context = "tag" /\ item.tagName # UndefinedStr
    IN  SelectSeq(children, IsTag)

\* C15: whenever a repository resolution has returned tag items, the project
\* owning the repository is found in cachedProjects and every tag item carries
\* registry.gitlab.com/<path of that project>:<tag name>.
C15_ImageReferenceOfOwner ==
    (RepoResolved /\ Len(TagItems(Children)) > 0) =>
        LET owner == FindProject(CompleteProjects, OwnerOf(Resolved.repoId))
        IN  /\ FindProject(cachedProjects, Resolved.projectId) = owner
            /\ \A i \in 1..Len(TagItems(Children)) :
                   TagItems(Children)[i].imageUrl =
                       <<"registry.gitlab.com/">> \o owner.path_with_namespace
                       \o <<":">> \o TagItems(Children)[i].tagName

\* C16: with a token stored, a resolution of the root, of a project or of a
\* repository never returns an empty child list: an empty result is shown as a
\* placeholder item.
C16_EmptyResultHasPlaceholder ==
    (/\ returned # <<>>
     /\ gitlabToken
     /\ Resolved.context \in {"root", "project", "repo"}) => Len(Children) >= 1

\* C18: a root resolution without a stored token shows a message to the user.
C18_MissingTokenIsReported ==
    (RootResolved /\ ~gitlabToken) => "showErrorMessage" \in emitted

\* the ways a request can fail: a non-success answer, or no answer at all
Failures == {"notok", "reject"}

\* C17: when the request of page k of the project listing fails, the call asks
\* for no further page, shows a message, does not reject, and stores for the
\* root the projects accepted from the pages before k.
C17_FailingPageEndsListing ==
    [][\A c \in Calls, o \in Failures :
          ProjectsResponse(c, o) =>
              /\ calls'[c].pc = "saved"
              /\ "showErrorMessage" \in emitted'
              /\ "rejected" \notin emitted'
              /\ cachedProjects' = calls[c].projects]_vars

\* C19: when the detail request of one listed tag fails, the call goes on; the
\* tag is kept by name only, and once every detail request has answered the
\* stored list has one record for every listed name, with the timestamp and
\* size of every tag whose request succeeded.
C19_DetailFailureDegradesOneTag ==
    [][\A c \in Calls, i \in 1..3, o \in Failures :
          DetailResponse(c, i, o) =>
              /\ "rejected" \notin emitted'
              /\ \/ /\ calls'[c].pc = "details"
                    /\ calls'[c].enrichedTags[i] = Tag(calls[c].allTags[i], Undefined, Undefined)
                    /\ \A j \in 1..Len(calls[c].enrichedTags) :
                           j # i => calls'[c].enrichedTags[j] = calls[c].enrichedTags[j]
                 \/ /\ returned' # <<>>
                    /\ LET R == calls[c].element.repoId
                       IN  /\ R \in DOMAIN cachedTags'
                           /\ Len(cachedTags'[R]) = Len(calls[c].allTags)
                           /\ \A j \in 1..Len(calls[c].allTags) :
                                  \E t \in Range(cachedTags'[R]) :
                                      /\ t.name = calls[c].allTags[j]
                                      /\ t = IF j = i
                                             THEN Tag(t.name, Undefined, Undefined)
                                             ELSE calls[c].enrichedTags[j]]_vars

\* the projects of the pages before page k of the listing
FetchedBefore(k) ==
    UNION {Range(PageOf(RemoteProjectPages, n)) : n \in 1..(k - 1)}

C21_MutationsFire ==
    [][/\ (\/ refresh
           \/ \E q \in SearchInputs : setSearchQuery(q)
           \/ \E q \in FilterInputs : setFilterTagsQuery(1, q)
           \/ clearFilters
           \/ clearFilterForRepo(1)
           \/ showAllTags(1)
           \/ clearShowAllTagsForRepo(1)) => "fire" \in emitted'
       /\ (\/ searchQuery' # searchQuery
           \/ filterTagsQueries' # filterTagsQueries
           \/ showAllTagsForRepo' # showAllTagsForRepo) => "fire" \in emitted']_vars

\* the host was notified by a step that left show-all set for repository 1,
\* with a search and a blank-trimmed filter in place and the tags cached
C21_Witness ==
    /\ emitted = {"fire"}
    /\ showAllTagsForRepo = {1}
    /\ searchQuery = <<"z">>
    /\ filterTagsQueries = [k \in {1} |-> <<>>]
    /\ 1 \in DOMAIN cachedTags

\* what the handlers do to the host's user interface
HostUIActions == {"collapseAll", "showErrorMessage"}

\* C22: a step of clearFilters leaves the search string, the tag filters and
\* the show-all set empty and asks the host to collapse the tree; no other step
\* asks for a collapse; and refresh, clearFilterForRepo and
\* clearShowAllTagsForRepo do nothing to the host's user interface.
C22_OnlyClearFiltersCollapses ==
    [][/\ clearFilters =>
              /\ searchQuery' = <<>>
              /\ filterTagsQueries' = EmptyMap
              /\ showAllTagsForRepo' = {}
              /\ "collapseAll" \in emitted'
       /\ "collapseAll" \in emitted' => clearFilters
       /\ (refresh \/ clearFilterForRepo(1) \/ clearShowAllTagsForRepo(1)) =>
              emitted' \cap HostUIActions = {}]_vars

\* the collapse was requested and search, filters and show-all are empty, while
\* the cached tags of repository 1 are still there
C22_Witness ==
    /\ "collapseAll" \in emitted
    /\ searchQuery = <<>>
    /\ filterTagsQueries = EmptyMap
    /\ showAllTagsForRepo = {}
    /\ 1 \in DOMAIN cachedTags
    /\ Len(cachedTags[1]) = 3

\* C24: formatBytes gives "Unknown size" for undefined and for 0; for a byte
\* count B >= 1 the result ends in the unit with index min(4, m), m being the
\* number of base-1024 digits of B after the first, that is the number of times
\* B can be divided by 1024 before it falls below 1024: B, KB, MB, GB, and TB
\* for every B >= 1024^4.
C24_UnitOfFormatBytes ==
    scenario.phase = "formatted" =>
        LET text == scenario.text
            limbs == scenario.limbs
        IN  IF ~scenario.defined \/ limbs = <<0>>
            THEN text = <<"Unknown size">>
            ELSE /\ text # <<"Unknown size">>
                 /\ text[Len(text) - 1] = " "
                 /\ text[Len(text)] = units[Min(4, Len(limbs) - 1) + 1]
                 /\ Len(limbs) >= 5 => text[Len(text)] = "TB"

\* 1024^5 bytes have been formatted: 1024.00 TB, no unit beyond TB
C24_Witness ==
    /\ scenario.phase = "formatted"
    /\ scenario.defined
    /\ scenario.limbs = <<1, 0, 0, 0, 0, 0>>
    /\ scenario.text = <<"1024", ".", "0", "0", " ", "TB">>

\* C23: the children a root or folder resolution returns are in the order of
\* the locale-aware comparison of their labels.
C23_LabelsInLocaleOrder ==
    (RootResolved \/ FolderResolved) =>
        \A i \in 1..Len(Children), j \in 1..Len(Children) :
            i < j => LocaleCompare(Children[i].label, Children[j].label) <= 0

\* the call is in fetchProjects: a listing page or its repository probes are out
Listing(call) == call.pc \in {"projects", "probes"}

\* the probes of the page that have not answered yet
PendingProbes(call) ==
    {i \in 1..Len(call.projectChecks) : call.projectChecks[i] = "pending"}

\* C25: the project listing asks for page 1 first and then for one page more
\* at a time; it asks for page N+1 only in the step in which page N has answered
\* ok with projects and the last probe of page N has answered (or none was
\* sent); while probes are out no page is asked for; an empty or failing page
\* ends the listing; and every listing ends.
C25_PagesOneAtATime ==
    /\ [][\A c \in Calls :
             LET a == calls[c]
                 b == calls'[c]
             IN  /\ (~Listing(a) /\ Listing(b)) => (b.pc = "projects" /\ b.page = 1)
                 /\ (Listing(a) /\ Listing(b)) => b.page \in {a.page, a.page + 1}
                 /\ (Listing(a) /\ Listing(b) /\ b.page = a.page + 1) =>
                        /\ b.pc = "projects"
                        /\ Len(PageOf(RemoteProjectPages, a.page)) > 0
                        /\ a.pc = "probes" => Cardinality(PendingProbes(a)) = 1
                        /\ a.pc = "projects" => ProjectsResponse(c, "ok")
                 /\ (Listing(a) /\ b.pc = "probes") =>
                        /\ b.page = a.page
                        /\ a.pc = "projects" => PendingProbes(b) # {}
                 /\ (\/ ProjectsResponse(c, "notok")
                     \/ ProjectsResponse(c, "reject")
                     \/ /\ ProjectsResponse(c, "ok")
                        /\ Len(PageOf(RemoteProjectPages, a.page)) = 0) => ~Listing(b)]_vars
    /\ \A c \in Calls : Listing(calls[c]) ~> ~Listing(calls[c])

\* page 2 has been asked for after page 1 gave app, with the probes of page 1
\* all answered
C25_Witness ==
    /\ calls[1].pc = "projects"
    /\ calls[1].page = 2
    /\ calls[1].projects = <<pApp>>
    /\ PendingProbes(calls[1]) = {}

\* C26: with a token stored, every resolution of a project node sends the
\* repository request and returns nothing before the answer; an ok answer gives
\* one repo item per record of the answer, in its order, under the project of
\* the node; a non-success answer gives the empty list and is not a rejection.
C26_ReposFetchedEveryTime ==
    [][\A c \in Calls :
          /\ (gitlabToken /\ \E id \in {1, 3} : getChildren(c, ProjectElement(id))) =>
                 /\ calls'[c].pc = "repos"
                 /\ returned' = <<>>
                 /\ cachedProjects' = cachedProjects
                 /\ cachedTags' = cachedTags
          /\ ReposResponse(c, "ok") =>
                 /\ returned' # <<>>
                 /\ LET element == calls[c].element
                        repos == RemoteRepos(element.projectId)
                        items == returned'[1].children
                    IN  /\ returned'[1].element = element
                        /\ Len(items) = Len(repos)
                        /\ \A i \in 1..Len(repos) :
                               /\ items[i].context = "repo"
                               /\ items[i].repoId = repos[i].id
                               /\ items[i].projectId = element.projectId
                               /\ items[i].label = <<"Repository: ">> \o repos[i].path
          /\ ReposResponse(c, "notok") =>
                 /\ returned' = <<[element |-> calls[c].element, children |-> <<>>]>>
                 /\ "rejected" \notin emitted']_vars

\* the project node of app has been resolved to its two repositories
C26_Witness ==
    /\ returned # <<>>
    /\ Resolved.context = "project"
    /\ Resolved.projectId = 1
    /\ Len(Children) = 2
    /\ Children[1].repoId = 1
    /\ Children[2].repoId = 2

\* the calls that are fetching the tags of repository R
TagFetches(R) ==
    {c \in Calls : calls[c].pc \in {"tags", "details"} /\ calls[c].element.repoId = R}

\* the calls that are fetching the project list for the root
ProjectFetches == {c \in Calls : calls[c].pc \in {"projects", "probes", "saved"}}

\* C27: at no time is more than one tag fetch out for the same repository, nor
\* more than one project list fetch for the root.
C27_OneFetchPerNode ==
    /\ \A R \in RepoIds : Cardinality(TagFetches(R)) <= 1
    /\ Cardinality(ProjectFetches) <= 1

\* C28: once refresh() has run while a fetch was out, and no resolution has
\* started since, the project list, the persisted list and the tag cache stay
\* empty: the fetch that was out writes none of them.
C28_RefreshNotUndone ==
    scenario.phase = "refreshed" =>
        /\ cachedProjects = <<>>
        /\ globalState = <<>>
        /\ cachedTags = EmptyMap

\* the tag names of the pages before page k of the listing of repository R
TagNamesBefore(R, k) ==
    LET f[n \in 0..(k - 1)] ==
            IF n = 0 THEN <<>> ELSE f[n - 1] \o PageOf(RemoteTagPages(R), n)
    IN  f[k - 1]

\* what C29 says of a listing page that fails in one of the ways of fails
FailedListingIsCached(fails) ==
    \A c \in Calls :
        LET a == calls[c]
            b == calls'[c]
            R == a.element.repoId
        IN  /\ \A o \in fails :
                   TagsResponse(c, o) =>
                       LET names == TagNamesBefore(R, a.page)
                       IN  IF names = <<>>
                           THEN /\ returned' # <<>>
                                /\ R \in DOMAIN cachedTags'
                                /\ cachedTags'[R] = <<>>
                           ELSE /\ b.pc = "details"
                                /\ b.allTags = names
            /\ (a.pc = "details" /\ b.pc = "idle" /\ returned' # <<>>) =>
                   /\ R \in DOMAIN cachedTags'
                   /\ Len(cachedTags'[R]) = Len(a.allTags)
                   /\ {t.name : t \in Range(cachedTags'[R])} = Range(a.allTags)
            /\ (1 \in DOMAIN cachedTags /\ getChildren(c, RepoElement(1))) =>
                   /\ calls' = calls
                   /\ returned' # <<>>
                   /\ cachedTags' = cachedTags
            /\ ~refresh => \A Q \in DOMAIN cachedTags :
                               Q \in DOMAIN cachedTags' /\ cachedTags'[Q] = cachedTags[Q]
            /\ (cachedProjects = <<>> /\ getChildren(c, RootElement)) =>
                   /\ b.pc = "projects"
                   /\ returned' = <<>>

C30_SameReferenceAcrossRepos ==
    (scenario.phase = "shown" /\ DOMAIN scenario.shown = FilteredRepos) =>
        \A x \in scenario.shown[1], y \in scenario.shown[2] :
            x.tagName = y.tagName => x.imageUrl = y.imageUrl

=============================================================================
